---- MODULE Spec2Model ----
(***************************************************************************)
(* proof-api (services/proof-api/src/server.ts) and its bootstrap seed     *)
(* script: API-key authentication, the proof-request lifecycle, assertion  *)
(* issuance and assertion verification with the replay ledger.             *)
(*                                                                         *)
(* Every HTTP handler is an async function.  It is modelled as a process   *)
(* that moves from one `await` on the database (or on jose) to the next;   *)
(* the code between two awaits runs without interruption on the Node event *)
(* loop and is one step of the model.  Two handlers run concurrently.      *)
(***************************************************************************)
EXTENDS Integers, Sequences, FiniteSets, TLC

(***************************************************************************)
(* Bounds of the model                                                     *)
(***************************************************************************)
MaxTime == 2
MaxCalls == 3
\* the requests of the end-to-end run: create, callback, issue, verify, verify
E2ECalls == 5

\* the handlers that may be in flight at the same time
Procs == {1, 2}

(***************************************************************************)
(* Configuration read at process start                                     *)
(***************************************************************************)
verifierCallbackSecret == "dev_verifier_secret_change_me"
jwtSigningKey == "dev_jwt_signing_key_change_me_and_make_it_long"
\* ASSERTION_TTL_SECONDS, in ticks of the model clock
assertionTtlSeconds == 1
Issuer == "proofage-rail"

(***************************************************************************)
(* Values the callers choose from                                          *)
(***************************************************************************)
ExternalRefs == {"merchant_demo", "merchant_other"}
BootstrapKeys == {"proofage_demo_key_change_me", "bootstrap_key_of_other"}
ShortBootstrapKey == "too_short_key"
WrongKey == "pkr_ffffffffffffffffffffffffffffffff"
NoHeader == ""
Undefined == "undefined"
Null == "null"
SubjectRefs == {"user_123", "user_456"}
ShortSubjectRef == "ab"
MinAges == {13, 18}
BadMinAges == {12, 26}
RequiredMinAges == {13, 18, 25}
Nonces == {"nonce_1700000000", "nonce_1700000001"}
ShortNonce == "nonce_1"
VerifierRefs == {"verif_001", "verif_002"}
Results == {"passed", "failed"}
BadResult == "pending"

VARIABLES
    merchants,      \* table Merchant: set of [id, externalRef]
    apiKeys,        \* table ApiKey: row i has id i
    proofRequests,  \* table ProofRequest: row i has id i
    assertionUses,  \* table AssertionUse (the replay ledger): rows in insertion order
    issued,         \* every token signed with jwtSigningKey so far (held by callers)
    now,            \* the wall clock, in ticks
    proc,           \* the handlers in flight: proc[p] is a request and its position
    okCount,        \* history: okCount[t] counts the valid=true responses for issued[t]
    claimedBy,      \* history: the handler whose insert created the ledger row of issued[t]
    calls           \* history: the number of requests received so far

vars == <<merchants, apiKeys, proofRequests, assertionUses, issued, now, proc,
          okCount, claimedBy, calls>>

dbVars == <<merchants, apiKeys, proofRequests, assertionUses>>

(***************************************************************************)
(* Pure helpers                                                            *)
(***************************************************************************)
\* createHash("sha256").update(value).digest("hex"): deterministic, one-way,
\* collision-free on the values of the model; the digest is never the value.
sha256(value) == "sha256:" \o value

\* randomUUID(): the n-th identifier drawn
randomUUID(n) == "00000000-0000-4000-8000-00000000000" \o ToString(n)

\* `pkr_${randomUUID().replaceAll("-", "")}` for the n-th key
buildApiKeyPlaintext(n) == "pkr_0000000000004000800000000000000" \o ToString(n)

MerchantIdOf(ref) == "id_" \o ref

\* a lookup that leaves out the revokedAt filter
KeyIdsIgnoringRevocation(keys, keyHash) ==
    {i \in 1..Len(keys) : keys[i].keyHash = keyHash}

\* the row ids of ApiKey rows matching `keyHash` with revokedAt null
ActiveKeyIds(keys, keyHash) ==
    {i \in 1..Len(keys) : keys[i].keyHash = keyHash /\ keys[i].revokedAt = 0}

KeyIdsByHash(keys, keyHash) == {i \in 1..Len(keys) : keys[i].keyHash = keyHash}

ExternalRefOfMerchant(mid) ==
    (CHOOSE m \in merchants : m.id = mid).externalRef

(***************************************************************************)
(* Requests and responses                                                  *)
(***************************************************************************)
NoIn == [apiKeyId |-> 0, subjectRef |-> Undefined, minAge |-> 0,
         proofRequestId |-> 0, secret |-> NoHeader, result |-> Undefined,
         verifierRef |-> Undefined, nonce |-> Undefined, assertion |-> 0,
         requiredMinAge |-> 0, expectedNonce |-> Undefined,
         expectedSubjectRef |-> Undefined]

NoOut == [status |-> 0, code |-> "NONE"]

\* late and fresh are history: was the token of a verification already consumed
\* when the request arrived, and was it still unconsumed when its checks passed
Idle == [op |-> "idle", pc |-> "idle", cred |-> NoHeader, merchantId |-> Undefined,
         merchantExternalRef |-> Undefined, keyId |-> 0, in |-> NoIn, out |-> NoOut,
         late |-> FALSE, fresh |-> FALSE]

\* what stays visible of handler r once it has answered `out`
Ended(r, out) ==
    [Idle EXCEPT !.op = r.op, !.pc = "done", !.out = out,
                 !.in.assertion = r.in.assertion,
                 !.in.proofRequestId = r.in.proofRequestId,
                 !.late = r.late, !.fresh = r.fresh]

Reply(status, code) == [status |-> status, code |-> code]

\* The response is sent and the handler ends: its locals are gone.  What stays
\* visible of it is the response (and which token or proof request it was
\* about).
Respond(p, out) == [proc EXCEPT ![p] = Ended(proc[p], out)]

Goto(p, pc) == [proc EXCEPT ![p].pc = pc]

\* the credentials a caller can present: nothing, a wrong key, a bootstrap key,
\* or the plaintext of a key the server has handed out
Credentials ==
    {NoHeader, WrongKey} \cup BootstrapKeys
        \cup {buildApiKeyPlaintext(i) : i \in
                {j \in 1..Len(apiKeys) :
                    apiKeys[j].keyHash = sha256(buildApiKeyPlaintext(j))}}

Init ==
    /\ merchants = {}
    /\ apiKeys = <<>>
    /\ proofRequests = <<>>
    /\ assertionUses = <<>>
    /\ issued = <<>>
    /\ now = 1
    /\ proc = [p \in Procs |-> Idle]
    /\ okCount = <<>>
    /\ claimedBy = <<>>
    /\ calls = 0

(***************************************************************************)
(* The clock                                                               *)
(***************************************************************************)
Tick ==
    /\ now < MaxTime
    /\ now' = now + 1
    /\ UNCHANGED <<dbVars, issued, proc, okCount, claimedBy, calls>>

(***************************************************************************)
(* Bootstrap seed script                                                   *)
(***************************************************************************)
Seed(merchantExternalRef, apiKey) ==
    /\ Len(apiKey) >= 16
    /\ LET keyHash == sha256(apiKey)
           merchant == [id |-> MerchantIdOf(merchantExternalRef),
                        externalRef |-> merchantExternalRef]
           found == KeyIdsByHash(apiKeys, keyHash)
       IN /\ merchants' = merchants \cup {merchant}
          /\ IF found # {}
             THEN LET i == CHOOSE i \in found : TRUE
                  IN apiKeys' = [apiKeys EXCEPT ![i].revokedAt = 0,
                                                ![i].merchantId = merchant.id]
             ELSE apiKeys' = Append(apiKeys,
                        [merchantId |-> merchant.id, keyHash |-> keyHash,
                         revokedAt |-> 0])
    /\ UNCHANGED <<proofRequests, assertionUses, issued, now, proc, okCount, claimedBy, calls>>

(***************************************************************************)
(* Request validation (the zod schemas)                                    *)
(***************************************************************************)
\* requestSchema: subjectRef string min(3), minAge int 13..25
requestSchemaOk(in) == Len(in.subjectRef) >= 3 /\ in.minAge >= 13 /\ in.minAge <= 25

\* callbackSchema: proofRequestId uuid, result passed|failed, verifierRef min(1).
\* A proofRequestId below 0 stands for a string that is no UUID, 0 and the ids
\* above Len(proofRequests) for UUIDs of no row.
callbackSchemaOk(in) ==
    in.proofRequestId >= 0 /\ in.result \in {"passed", "failed"} /\ Len(in.verifierRef) >= 1

\* proofRequestParamsSchema: proofRequestId uuid
proofRequestParamsSchemaOk(in) == in.proofRequestId >= 0

\* merchantApiKeyParamsSchema: apiKeyId cuid (below 0: no cuid)
merchantApiKeyParamsSchemaOk(in) == in.apiKeyId >= 0

\* proofAssertionQuerySchema: nonce string min(8) max(200), optional
proofAssertionQuerySchemaOk(in) ==
    in.nonce = Undefined \/ (Len(in.nonce) >= 8 /\ Len(in.nonce) <= 200)

\* verifyAssertionSchema: assertion string min(20) (below 0: a shorter string),
\* requiredMinAge int 13..25, expectedNonce min(8) max(200), expectedSubjectRef
\* min(3) optional
verifyAssertionSchemaOk(in) ==
    /\ in.assertion >= 0
    /\ in.requiredMinAge >= 13 /\ in.requiredMinAge <= 25
    /\ Len(in.expectedNonce) >= 8 /\ Len(in.expectedNonce) <= 200
    /\ (in.expectedSubjectRef = Undefined \/ Len(in.expectedSubjectRef) >= 3)

\* assertionPayloadSchema: age_over int 13..25, nonce min(8) max(200),
\* proof_request_id uuid optional, verifier_ref string optional
assertionPayloadSchemaOk(payload) ==
    /\ payload.age_over >= 13 /\ payload.age_over <= 25
    /\ Len(payload.nonce) >= 8 /\ Len(payload.nonce) <= 200

(***************************************************************************)
(* authenticateMerchant                                                    *)
(***************************************************************************)
\* A merchant request arrives: the handler calls authenticateMerchant, which
\* reads the x-api-key header and, when it is there, awaits apiKey.findFirst.
Begin(p, op, cred, in) ==
    /\ proc[p].pc \in {"idle", "done"}
    /\ calls < MaxCalls
    /\ LET r == [Idle EXCEPT !.op = op, !.cred = cred, !.in = in,
                              !.late = /\ in.assertion \in 1..Len(okCount)
                                       /\ okCount[in.assertion] >= 1]
       IN proc' = [proc EXCEPT ![p] =
            IF cred = NoHeader
            THEN Ended(r, Reply(401, "MISSING_API_KEY"))
            ELSE [r EXCEPT !.pc = "auth_find"]]
    /\ claimedBy' = [t \in 1..Len(claimedBy) |->
                        IF claimedBy[t] = p THEN -1 ELSE claimedBy[t]]
    /\ calls' = calls + 1
    /\ UNCHANGED <<dbVars, issued, now, okCount>>

\* apiKey.findFirst({where: {keyHash, revokedAt: null}, include: {merchant}})
AuthFind(p) ==
    /\ proc[p].pc = "auth_find"
    /\ LET found == ActiveKeyIds(apiKeys, sha256(proc[p].cred))
       IN IF found = {}
          THEN proc' = Respond(p, Reply(401, "INVALID_API_KEY"))
          ELSE LET i == CHOOSE i \in found : TRUE
               IN proc' = [proc EXCEPT ![p].pc = "auth_touch",
                                       ![p].keyId = i,
                                       ![p].merchantId = apiKeys[i].merchantId,
                                       ![p].merchantExternalRef =
                                           ExternalRefOfMerchant(apiKeys[i].merchantId)]
    /\ UNCHANGED <<dbVars, issued, now, okCount, claimedBy, calls>>

\* What the handler does between the return of authenticateMerchant and its
\* next await: it validates the request.
Reject(r, status, code) == Ended(r, Reply(status, code))

AfterAuth(r) ==
    CASE r.op = "issueKey" -> [r EXCEPT !.pc = "key_create"]
      [] r.op = "revokeKey" ->
            IF merchantApiKeyParamsSchemaOk(r.in)
            THEN [r EXCEPT !.pc = "revoke_find"]
            ELSE Reject(r, 400, "INVALID_PARAMS")
      [] r.op = "createRequest" ->
            IF requestSchemaOk(r.in)
            THEN [r EXCEPT !.pc = "proof_create"]
            ELSE Reject(r, 400, "INVALID_REQUEST")
      [] r.op = "getStatus" ->
            IF proofRequestParamsSchemaOk(r.in)
            THEN [r EXCEPT !.pc = "status_find"]
            ELSE Reject(r, 400, "INVALID_PARAMS")
      [] r.op = "issueAssertion" ->
            IF proofRequestParamsSchemaOk(r.in)
            THEN [r EXCEPT !.pc = "assertion_find"]
            ELSE Reject(r, 400, "INVALID_PARAMS")
      [] r.op = "verify" ->
            IF verifyAssertionSchemaOk(r.in)
            THEN [r EXCEPT !.pc = "verify_jwt"]
            ELSE Reject(r, 400, "INVALID_REQUEST")

\* apiKey.update({where: {id}, data: {lastUsedAt: new Date()}}), then the
\* MerchantContext is returned to the handler
\* The column lastUsedAt is read by no handler but the key listing; its value
\* is not kept in the model, the write is a step of its own.
AuthTouch(p) ==
    /\ proc[p].pc = "auth_touch"
    /\ proc' = [proc EXCEPT ![p] = AfterAuth(proc[p])]
    /\ UNCHANGED <<dbVars, issued, now, okCount, claimedBy, calls>>

\* The same update rejects (the database is unreachable, the statement times
\* out).  The await is in no try block: the rejection leaves
\* authenticateMerchant and the handler, and Fastify answers 500.
AuthTouchFails(p) ==
    /\ proc[p].pc = "auth_touch"
    /\ proc' = Respond(p, Reply(500, "INTERNAL_SERVER_ERROR"))
    /\ UNCHANGED <<dbVars, issued, now, okCount, claimedBy, calls>>

(***************************************************************************)
(* POST /v1/merchant/api-keys                                              *)
(***************************************************************************)
StartIssueKey(p, cred) ==
    /\ Begin(p, "issueKey", cred, NoIn)

\* apiKey.create: the plaintext is fresh, so its hash collides with no row
KeyCreate(p) ==
    /\ proc[p].pc = "key_create"
    /\ LET apiKey == buildApiKeyPlaintext(Len(apiKeys) + 1)
       IN /\ apiKeys' = Append(apiKeys,
                [merchantId |-> proc[p].merchantId, keyHash |-> sha256(apiKey),
                 revokedAt |-> 0])
          /\ proc' = Respond(p, [status |-> 201, code |-> "CREATED",
                                 apiKeyId |-> Len(apiKeys) + 1, apiKey |-> apiKey])
    /\ UNCHANGED <<merchants, proofRequests, assertionUses, issued, now, okCount, claimedBy, calls>>

(***************************************************************************)
(* POST /v1/merchant/api-keys/:apiKeyId/revoke                             *)
(***************************************************************************)
StartRevokeKey(p, cred, apiKeyId) ==
    Begin(p, "revokeKey", cred, [NoIn EXCEPT !.apiKeyId = apiKeyId])

\* a current-key check that compares the presented key itself with the hash
isCurrentKeyPlaintext(currentApiKey, target) ==
    currentApiKey # NoHeader /\ currentApiKey = target.keyHash

\* currentApiKey && sha256(currentApiKey) === target.keyHash
isCurrentKey(currentApiKey, target) ==
    currentApiKey # NoHeader /\ sha256(currentApiKey) = target.keyHash

\* a handler that never takes the already-revoked branch
alreadyRevokedIgnored(target) == FALSE

\* if (target.revokedAt)
alreadyRevoked(target) == target.revokedAt # 0

\* apiKey.findFirst({where: {id, merchantId}}), the current-key check and the
\* already-revoked check
RevokeFind(p) ==
    /\ proc[p].pc = "revoke_find"
    /\ LET id == proc[p].in.apiKeyId
           exists == /\ id \in 1..Len(apiKeys)
                     /\ apiKeys[id].merchantId = proc[p].merchantId
       IN proc' =
            IF ~exists THEN Respond(p, Reply(404, "NOT_FOUND"))
            ELSE IF isCurrentKey(proc[p].cred, apiKeys[id])
            THEN Respond(p, Reply(409, "CANNOT_REVOKE_CURRENT_KEY"))
            ELSE IF alreadyRevoked(apiKeys[id])
            THEN Respond(p, [status |-> 200, code |-> "OK", alreadyRevoked |-> TRUE])
            ELSE Goto(p, "revoke_update")
    /\ UNCHANGED <<dbVars, issued, now, okCount, claimedBy, calls>>

\* apiKey.update({where: {id: target.id}, data: {revokedAt: new Date()}})
RevokeUpdate(p) ==
    /\ proc[p].pc = "revoke_update"
    /\ apiKeys' = [apiKeys EXCEPT ![proc[p].in.apiKeyId].revokedAt = now]
    /\ proc' = Respond(p, [status |-> 200, code |-> "OK", alreadyRevoked |-> FALSE,
                           apiKeyId |-> proc[p].in.apiKeyId, revokedAt |-> now])
    /\ UNCHANGED <<merchants, proofRequests, assertionUses, issued, now, okCount, claimedBy, calls>>

(***************************************************************************)
(* POST /v1/proof/request                                                  *)
(***************************************************************************)
StartCreateRequest(p, cred, subjectRef, minAge) ==
    /\ Begin(p, "createRequest", cred,
             [NoIn EXCEPT !.subjectRef = subjectRef, !.minAge = minAge])

\* proofRequest.create({data: {subjectRef, minAge, status: "pending", merchantId}})
ProofCreate(p) ==
    /\ proc[p].pc = "proof_create"
    /\ proofRequests' = Append(proofRequests,
            [merchantId |-> proc[p].merchantId, subjectRef |-> proc[p].in.subjectRef,
             minAge |-> proc[p].in.minAge, status |-> "pending", verifierRef |-> Null])
    /\ proc' = Respond(p, [status |-> 201, code |-> "CREATED",
                           proofRequestId |-> Len(proofRequests) + 1,
                           merchantId |-> proc[p].merchantExternalRef,
                           proofStatus |-> "pending"])
    /\ UNCHANGED <<merchants, apiKeys, assertionUses, issued, now, okCount, claimedBy, calls>>

(***************************************************************************)
(* POST /v1/proof/callback                                                 *)
(***************************************************************************)
\* a comparison that stops after the lengths
safeEqualLengthOnly(a, b) == Len(a) = Len(b)

\* Buffer lengths are compared first, then the bytes in constant time
safeEqual(a, b) == Len(a) = Len(b) /\ a = b

\* the code of the 401 response, or "OK"
verifyCallbackSecret(provided) ==
    IF provided = NoHeader THEN "MISSING_VERIFIER_SECRET"
    ELSE IF ~safeEqual(provided, verifierCallbackSecret) THEN "INVALID_VERIFIER_SECRET"
    ELSE "OK"

\* The callback arrives: the secret and the body are checked before the
\* first await.
StartCallback(p, secret, proofRequestId, result, verifierRef) ==
    /\ proc[p].pc \in {"idle", "done"}
    /\ calls < MaxCalls
    /\ LET in == [NoIn EXCEPT !.secret = secret, !.proofRequestId = proofRequestId,
                              !.result = result, !.verifierRef = verifierRef]
           r == [Idle EXCEPT !.op = "callback"]
           auth == verifyCallbackSecret(secret)
       IN proc' = [proc EXCEPT ![p] =
            IF auth # "OK"
            THEN [r EXCEPT !.pc = "done", !.out = Reply(401, auth)]
            ELSE IF ~callbackSchemaOk(in)
            THEN [r EXCEPT !.pc = "done", !.out = Reply(400, "INVALID_CALLBACK")]
            ELSE [r EXCEPT !.pc = "callback_find", !.in = in]]
    /\ claimedBy' = [t \in 1..Len(claimedBy) |->
                        IF claimedBy[t] = p THEN -1 ELSE claimedBy[t]]
    /\ calls' = calls + 1
    /\ UNCHANGED <<dbVars, issued, now, okCount>>

\* proofRequest.findUnique({where: {id}})
CallbackFind(p) ==
    /\ proc[p].pc = "callback_find"
    /\ proc' = IF proc[p].in.proofRequestId \in 1..Len(proofRequests)
               THEN Goto(p, "callback_update")
               ELSE Respond(p, Reply(404, "NOT_FOUND"))
    /\ UNCHANGED <<dbVars, issued, now, okCount, claimedBy, calls>>

\* an update that is applied to pending requests only
CallbackDataPendingOnly(row, in) ==
    IF row.status = "pending"
    THEN [row EXCEPT !.status = in.result, !.verifierRef = in.verifierRef]
    ELSE row

\* an update that writes the status and leaves the verifier reference
CallbackDataStatusOnly(row, in) == [row EXCEPT !.status = in.result]

\* the row written by proofRequest.update({where: {id}, data: {status, verifierRef}})
CallbackData(row, in) == [row EXCEPT !.status = in.result, !.verifierRef = in.verifierRef]

CallbackUpdate(p) ==
    /\ proc[p].pc = "callback_update"
    /\ LET id == proc[p].in.proofRequestId
       IN proofRequests' = [proofRequests EXCEPT ![id] = CallbackData(@, proc[p].in)]
    /\ proc' = Respond(p, Reply(200, "OK"))
    /\ UNCHANGED <<merchants, apiKeys, assertionUses, issued, now, okCount, claimedBy, calls>>

(***************************************************************************)
(* GET /v1/proof/status/:proofRequestId                                    *)
(***************************************************************************)
\* a lookup by id alone
FindProofOfAnyMerchant(id, merchantId) ==
    IF id \in 1..Len(proofRequests) THEN id ELSE 0

\* proofRequest.findFirst({where: {id, merchantId}}): the row id, or 0
FindProofOfMerchant(id, merchantId) ==
    IF id \in 1..Len(proofRequests) /\ proofRequests[id].merchantId = merchantId
    THEN id ELSE 0

StartGetStatus(p, cred, proofRequestId) ==
    Begin(p, "getStatus", cred, [NoIn EXCEPT !.proofRequestId = proofRequestId])

StatusFind(p) ==
    /\ proc[p].pc = "status_find"
    /\ LET id == FindProofOfMerchant(proc[p].in.proofRequestId, proc[p].merchantId)
       IN proc' =
            IF id = 0 THEN Respond(p, Reply(404, "NOT_FOUND"))
            ELSE Respond(p, [status |-> 200, code |-> "OK", proofRequestId |-> id,
                             proofStatus |-> proofRequests[id].status,
                             minAge |-> proofRequests[id].minAge,
                             ageAssertion |-> IF proofRequests[id].status = "passed"
                                              THEN proofRequests[id].minAge ELSE 0])
    /\ UNCHANGED <<dbVars, issued, now, okCount, claimedBy, calls>>

(***************************************************************************)
(* GET /v1/proof/assertion/:proofRequestId                                 *)
(***************************************************************************)
\* an assertion that claims the default threshold instead of the request's
buildAgeAssertionDefaultAge(merchantExternalRef, id, nonce, n) ==
    [age_over |-> 18,
     nonce |-> nonce,
     proof_request_id |-> id,
     verifier_ref |-> proofRequests[id].verifierRef,
     iss |-> Issuer,
     aud |-> merchantExternalRef,
     sub |-> proofRequests[id].subjectRef,
     jti |-> randomUUID(n),
     iat |-> now,
     exp |-> now + assertionTtlSeconds]

\* an assertion whose token identifier is derived from the proof request
buildAgeAssertionJtiOfProof(merchantExternalRef, id, nonce, n) ==
    [age_over |-> proofRequests[id].minAge,
     nonce |-> nonce,
     proof_request_id |-> id,
     verifier_ref |-> proofRequests[id].verifierRef,
     iss |-> Issuer,
     aud |-> merchantExternalRef,
     sub |-> proofRequests[id].subjectRef,
     jti |-> "jti-of-proof-" \o ToString(id),
     iat |-> now,
     exp |-> now + assertionTtlSeconds]

\* The claims signed by buildAgeAssertion for ProofRequest row `id`; n numbers
\* the token (its jti is the n-th UUID drawn).
buildAgeAssertion(merchantExternalRef, id, nonce, n) ==
    [age_over |-> proofRequests[id].minAge,
     nonce |-> nonce,
     proof_request_id |-> id,
     verifier_ref |-> proofRequests[id].verifierRef,
     iss |-> Issuer,
     aud |-> merchantExternalRef,
     sub |-> proofRequests[id].subjectRef,
     jti |-> randomUUID(n),
     iat |-> now,
     exp |-> now + assertionTtlSeconds]

\* a status check that only refuses pending requests
IssuableStatusNotPending(status) == status # "pending"

\* the status a proof request must have for an assertion to be issued
IssuableStatus(status) == status = "passed"

StartIssueAssertion(p, cred, proofRequestId, nonce) ==
    /\ Begin(p, "issueAssertion", cred,
             [NoIn EXCEPT !.proofRequestId = proofRequestId, !.nonce = nonce])

\* proofRequest.findFirst({where: {id, merchantId}}), the status check, the
\* query check and buildAgeAssertion
AssertionFind(p) ==
    /\ proc[p].pc = "assertion_find"
    /\ LET id == FindProofOfMerchant(proc[p].in.proofRequestId, proc[p].merchantId)
           n == Len(issued) + 1
           nonce == IF proc[p].in.nonce = Undefined
                    THEN "nonce-" \o randomUUID(n) ELSE proc[p].in.nonce
       IN IF id = 0
          THEN /\ proc' = Respond(p, Reply(404, "NOT_FOUND"))
               /\ UNCHANGED <<issued, okCount, claimedBy>>
          ELSE IF ~IssuableStatus(proofRequests[id].status)
          THEN /\ proc' = Respond(p, Reply(409, "PROOF_NOT_PASSED"))
               /\ UNCHANGED <<issued, okCount, claimedBy>>
          ELSE IF ~proofAssertionQuerySchemaOk(proc[p].in)
          THEN /\ proc' = Respond(p, Reply(400, "INVALID_QUERY"))
               /\ UNCHANGED <<issued, okCount, claimedBy>>
          ELSE /\ issued' = Append(issued,
                        buildAgeAssertion(proc[p].merchantExternalRef, id, nonce, n))
               /\ okCount' = Append(okCount, 0)
               /\ claimedBy' = Append(claimedBy, 0)
               /\ proc' = Respond(p, [status |-> 200, code |-> "OK", assertion |-> n,
                                      expiresInSeconds |-> assertionTtlSeconds,
                                      nonce |-> nonce,
                                      claim |-> proofRequests[id].minAge,
                                      proofRequestId |-> id])
    /\ UNCHANGED <<dbVars, now, calls>>

(***************************************************************************)
(* POST /v1/relying/verify-assertion                                       *)
(***************************************************************************)
\* a jwtVerify call that is given no audience option
jwtVerifyOkAnyAudience(assertion, issuer, audience, t) ==
    /\ assertion \in 1..Len(issued)
    /\ issued[assertion].iss = issuer
    /\ issued[assertion].exp > t

\* a jwtVerify that does not look at the exp claim
jwtVerifyOkNoExpiry(assertion, issuer, audience, t) ==
    /\ assertion \in 1..Len(issued)
    /\ issued[assertion].iss = issuer
    /\ issued[assertion].aud = audience

\* jose's jwtVerify(assertion, key, {issuer, audience}) at time t.  Only the
\* tokens signed by buildAgeAssertion carry a signature of jwtSigningKey:
\* assertion 0 is any other string.  The token is expired once exp <= t.
jwtVerifyOk(assertion, issuer, audience, t) ==
    /\ assertion \in 1..Len(issued)
    /\ issued[assertion].iss = issuer
    /\ issued[assertion].aud = audience
    /\ issued[assertion].exp > t

\* a nonce check that compares the expected nonce with itself
nonceMismatchSelf(payload, in) == in.expectedNonce # in.expectedNonce

\* payloadParsed.data.nonce !== parsed.data.expectedNonce
nonceMismatch(payload, in) == payload.nonce # in.expectedNonce

\* parsed.data.expectedSubjectRef && payload.sub !== parsed.data.expectedSubjectRef
subjectMismatch(payload, in) ==
    in.expectedSubjectRef # Undefined /\ payload.sub # in.expectedSubjectRef

\* the same checks with the subject compared before the nonce
verifyChecksSubjectFirst(r, t) ==
    IF ~jwtVerifyOk(r.in.assertion, Issuer, r.merchantExternalRef, t)
    THEN Reply(401, "INVALID_ASSERTION")
    ELSE LET payload == issued[r.in.assertion]
         IN IF ~assertionPayloadSchemaOk(payload)
            THEN Reply(400, "INVALID_ASSERTION_CLAIMS")
            ELSE IF subjectMismatch(payload, r.in)
            THEN Reply(409, "SUBJECT_MISMATCH")
            ELSE IF nonceMismatch(payload, r.in)
            THEN Reply(409, "NONCE_MISMATCH")
            ELSE IF Len(payload.jti) < 8
            THEN Reply(400, "INVALID_ASSERTION_CLAIMS")
            ELSE Reply(200, "OK")

\* The checks made on the token before the ledger is touched: the code of the
\* rejection, or "OK".
verifyChecks(r, t) ==
    IF ~jwtVerifyOk(r.in.assertion, Issuer, r.merchantExternalRef, t)
    THEN Reply(401, "INVALID_ASSERTION")
    ELSE LET payload == issued[r.in.assertion]
         IN IF ~assertionPayloadSchemaOk(payload)
            THEN Reply(400, "INVALID_ASSERTION_CLAIMS")
            ELSE IF nonceMismatch(payload, r.in)
            THEN Reply(409, "NONCE_MISMATCH")
            ELSE IF subjectMismatch(payload, r.in)
            THEN Reply(409, "SUBJECT_MISMATCH")
            ELSE IF Len(payload.jti) < 8
            THEN Reply(400, "INVALID_ASSERTION_CLAIMS")
            ELSE Reply(200, "OK")

StartVerify(p, cred, assertion, requiredMinAge, expectedNonce, expectedSubjectRef) ==
    Begin(p, "verify", cred,
          [NoIn EXCEPT !.assertion = assertion, !.requiredMinAge = requiredMinAge,
                       !.expectedNonce = expectedNonce,
                       !.expectedSubjectRef = expectedSubjectRef])

\* The unique index on AssertionUse.tokenJti: does inserting tokenJti violate it?
tokenJtiTaken(rows, tokenJti) == \E i \in 1..Len(rows) : rows[i].tokenJti = tokenJti

\* await jwtVerify(...), then the checks up to the call of assertionUse.create
VerifyJwt(p) ==
    /\ proc[p].pc = "verify_jwt"
    /\ LET res == verifyChecks(proc[p], now)
       IN proc' =
            IF res.code = "OK"
            THEN [proc EXCEPT ![p].pc = "verify_insert",
                              ![p].fresh = ~tokenJtiTaken(assertionUses,
                                              issued[proc[p].in.assertion].jti)]
            ELSE Respond(p, res)
    /\ UNCHANGED <<dbVars, issued, now, okCount, claimedBy, calls>>

\* assertionUse.create({data}): "P2002" and no row when the unique index
\* rejects the insert, the row appended otherwise.  One atomic statement.
assertionUseCreate(rows, data) ==
    IF tokenJtiTaken(rows, data.tokenJti)
    THEN [error |-> "P2002", rows |-> rows]
    ELSE [error |-> "none", rows |-> Append(rows, data)]

\* a strict comparison in place of >=
meetsMinAgeStrict(age_over, requiredMinAge) == age_over > requiredMinAge

meetsMinAge(age_over, requiredMinAge) == age_over >= requiredMinAge

\* a catch block that tests for another error code and lets the handler go on
isReplayErrorWrongCode(error) == error = "P2003"

\* the catch block: is this error answered with ASSERTION_REPLAYED?
isReplayError(error) == error = "P2002"

\* the success response body
verifyResult(payload, in) ==
    [status |-> 200, code |-> "OK", valid |-> TRUE,
     meetsMinAge |-> meetsMinAge(payload.age_over, in.requiredMinAge),
     requiredMinAge |-> in.requiredMinAge,
     assertedAgeOver |-> payload.age_over,
     nonce |-> payload.nonce,
     subjectRef |-> payload.sub,
     proofRequestId |-> payload.proof_request_id,
     verifierRef |-> payload.verifier_ref,
     issuer |-> payload.iss,
     audience |-> payload.aud,
     issuedAt |-> payload.iat,
     expiresAt |-> payload.exp]

\* await prisma.assertionUse.create(...) with its catch, and the response
VerifyInsert(p) ==
    /\ proc[p].pc = "verify_insert"
    /\ LET t == proc[p].in.assertion
           payload == issued[t]
           data == [tokenJti |-> payload.jti, nonce |-> payload.nonce,
                    subjectRef |-> payload.sub, merchantId |-> proc[p].merchantId,
                    proofRequestId |-> payload.proof_request_id,
                    expiresAt |-> payload.exp]
           res == assertionUseCreate(assertionUses, data)
       IN /\ assertionUses' = res.rows
          /\ IF isReplayError(res.error)
             THEN /\ proc' = Respond(p, Reply(409, "ASSERTION_REPLAYED"))
                  /\ UNCHANGED <<okCount, claimedBy>>
             ELSE /\ proc' = Respond(p, verifyResult(payload, proc[p].in))
                  /\ okCount' = [okCount EXCEPT ![t] = @ + 1]
                  /\ claimedBy' = [claimedBy EXCEPT ![t] =
                                      IF res.error = "none" THEN p ELSE @]
    /\ UNCHANGED <<merchants, apiKeys, proofRequests, issued, now, calls>>

(***************************************************************************)
(* The system                                                              *)
(***************************************************************************)
ProofIds == -1..(Len(proofRequests) + 1)
AssertionInputs == -1..Len(issued)

Next ==
    \/ Tick
    \/ \E ref \in ExternalRefs, k \in BootstrapKeys \cup {ShortBootstrapKey} : Seed(ref, k)
    \/ \E p \in Procs : AuthFind(p)
    \/ \E p \in Procs : AuthTouch(p)
    \/ \E p \in Procs, cred \in Credentials : StartIssueKey(p, cred)
    \/ \E p \in Procs : KeyCreate(p)
    \/ \E p \in Procs, cred \in Credentials, id \in -1..(Len(apiKeys) + 1) : StartRevokeKey(p, cred, id)
    \/ \E p \in Procs : RevokeFind(p)
    \/ \E p \in Procs : RevokeUpdate(p)
    \/ \E p \in Procs, cred \in Credentials,
          subjectRef \in SubjectRefs \cup {ShortSubjectRef},
          minAge \in MinAges \cup BadMinAges :
            StartCreateRequest(p, cred, subjectRef, minAge)
    \/ \E p \in Procs : ProofCreate(p)
    \/ \E p \in Procs, secret \in {NoHeader, "wrong_secret", verifierCallbackSecret},
          id \in ProofIds, result \in Results \cup {BadResult},
          verifierRef \in VerifierRefs \cup {""} :
            StartCallback(p, secret, id, result, verifierRef)
    \/ \E p \in Procs : CallbackFind(p)
    \/ \E p \in Procs : CallbackUpdate(p)
    \/ \E p \in Procs, cred \in Credentials, id \in ProofIds : StartGetStatus(p, cred, id)
    \/ \E p \in Procs : StatusFind(p)
    \/ \E p \in Procs, cred \in Credentials, id \in ProofIds,
          nonce \in Nonces \cup {ShortNonce, Undefined} :
            StartIssueAssertion(p, cred, id, nonce)
    \/ \E p \in Procs : AssertionFind(p)
    \/ \E p \in Procs, cred \in Credentials, a \in AssertionInputs,
          requiredMinAge \in RequiredMinAges \cup {12},
          expectedNonce \in Nonces \cup {ShortNonce},
          expectedSubjectRef \in SubjectRefs \cup {Undefined} :
            StartVerify(p, cred, a, requiredMinAge, expectedNonce, expectedSubjectRef)
    \/ \E p \in Procs : VerifyJwt(p)
    \/ \E p \in Procs : VerifyInsert(p)

Spec == Init /\ [][Next]_vars

(***************************************************************************)
(* Verification and the replay ledger: both merchants are seeded, each has *)
(* one passed proof request.  Assertions are issued and verified.          *)
(***************************************************************************)
KeyA == "proofage_demo_key_change_me"
KeyB == "bootstrap_key_of_other"

SeededMerchants ==
    {[id |-> MerchantIdOf(ref), externalRef |-> ref] : ref \in ExternalRefs}

SeededKeys ==
    <<[merchantId |-> MerchantIdOf("merchant_demo"), keyHash |-> sha256(KeyA),
       revokedAt |-> 0],
      [merchantId |-> MerchantIdOf("merchant_other"), keyHash |-> sha256(KeyB),
       revokedAt |-> 0]>>

InitVerify ==
    /\ merchants = SeededMerchants
    /\ apiKeys = SeededKeys
    /\ proofRequests =
         <<[merchantId |-> MerchantIdOf("merchant_demo"), subjectRef |-> "user_123",
            minAge |-> 18, status |-> "passed", verifierRef |-> "verif_001"],
           [merchantId |-> MerchantIdOf("merchant_other"), subjectRef |-> "user_456",
            minAge |-> 13, status |-> "passed", verifierRef |-> "verif_002"]>>
    /\ assertionUses = <<>>
    /\ issued = <<>>
    /\ now = 1
    /\ proc = [p \in Procs |-> Idle]
    /\ okCount = <<>>
    /\ claimedBy = <<>>
    /\ calls = 0

NextVerify ==
    \/ Tick
    \/ \E p \in Procs : AuthFind(p)
    \/ \E p \in Procs : AuthTouch(p)
    \/ \E p \in Procs, cred \in {KeyA, KeyB}, id \in 1..2 :
            StartIssueAssertion(p, cred, id, "nonce_1700000000")
    \/ \E p \in Procs : AssertionFind(p)
    \/ \E p \in Procs, cred \in {KeyA, KeyB}, a \in 0..Len(issued),
          expectedNonce \in Nonces :
            StartVerify(p, cred, a, 18, expectedNonce, Undefined)
    \/ \E p \in Procs : VerifyJwt(p)
    \/ \E p \in Procs : VerifyInsert(p)

SpecVerify == InitVerify /\ [][NextVerify]_vars

\* One handler at a time, with every kind of verification request
NextVerifySeq ==
    \/ Tick
    \/ AuthFind(1)
    \/ AuthTouch(1)
    \/ \E cred \in {KeyA, KeyB}, id \in 1..2, nonce \in Nonces :
            StartIssueAssertion(1, cred, id, nonce)
    \/ AssertionFind(1)
    \/ \E cred \in {KeyA, KeyB}, a \in 0..Len(issued),
          requiredMinAge \in RequiredMinAges,
          expectedNonce \in Nonces,
          expectedSubjectRef \in {"user_123", Undefined} :
            StartVerify(1, cred, a, requiredMinAge, expectedNonce, expectedSubjectRef)
    \/ VerifyJwt(1)
    \/ VerifyInsert(1)

SpecVerifySeq == InitVerify /\ [][NextVerifySeq]_vars

(***************************************************************************)
(* The credential store: seeding, key issuance and revocation.             *)
(***************************************************************************)
\* the environments the seed script is run with
SeedRuns ==
    {<<"merchant_demo", "proofage_demo_key_change_me">>,
     <<"merchant_other", "bootstrap_key_of_other">>,
     <<"merchant_other", ShortBootstrapKey>>}

\* a caller presents no key, a bootstrap key or a key it was issued
KeysCredentials == Credentials \ {WrongKey}

NextKeys ==
    \/ Tick
    \/ \E run \in SeedRuns : Seed(run[1], run[2])
    \/ \E p \in Procs : AuthFind(p)
    \/ \E p \in Procs : AuthTouch(p)
    \/ \E p \in Procs, cred \in KeysCredentials : StartIssueKey(p, cred)
    \/ \E p \in Procs : KeyCreate(p)
    \/ \E p \in Procs, cred \in KeysCredentials, id \in 0..Len(apiKeys) :
            StartRevokeKey(p, cred, id)
    \/ \E p \in Procs : RevokeFind(p)
    \/ \E p \in Procs : RevokeUpdate(p)

SpecKeys == Init /\ [][NextKeys]_vars

(***************************************************************************)
(* The proof lifecycle and issuance: both merchants are seeded and the     *)
(* demo merchant has created one request, still pending.  Requests are     *)
(* created, called back and asserted.  No step here reads the clock but    *)
(* buildAgeAssertion, so the clock stands still.                           *)
(***************************************************************************)
InitProof ==
    /\ merchants = SeededMerchants
    /\ apiKeys = SeededKeys
    /\ proofRequests =
         <<[merchantId |-> MerchantIdOf("merchant_demo"), subjectRef |-> "user_123",
            minAge |-> 18, status |-> "pending", verifierRef |-> Null]>>
    /\ assertionUses = <<>>
    /\ issued = <<>>
    /\ now = 1
    /\ proc = [p \in Procs |-> Idle]
    /\ okCount = <<>>
    /\ claimedBy = <<>>
    /\ calls = 0

NextProof ==
    \/ \E p \in Procs : AuthFind(p)
    \/ \E p \in Procs : AuthTouch(p)
    \/ \E p \in Procs, cred \in {KeyA, KeyB}, subjectRef \in {"user_456", ShortSubjectRef},
          minAge \in {13, 26} :
            StartCreateRequest(p, cred, subjectRef, minAge)
    \/ \E p \in Procs : ProofCreate(p)
    \/ \E p \in Procs, secret \in {verifierCallbackSecret, "wrong_secret"},
          id \in 0..Len(proofRequests), result \in Results, verifierRef \in VerifierRefs :
            StartCallback(p, secret, id, result, verifierRef)
    \/ \E p \in Procs : CallbackFind(p)
    \/ \E p \in Procs : CallbackUpdate(p)
    \/ \E p \in Procs, cred \in {KeyA, KeyB}, id \in 0..Len(proofRequests),
          nonce \in {"nonce_1700000000", ShortNonce, Undefined} :
            StartIssueAssertion(p, cred, id, nonce)
    \/ \E p \in Procs : AssertionFind(p)

SpecProof == InitProof /\ [][NextProof]_vars

(***************************************************************************)
(* Merchant scoping: each merchant has created one request; the verifier   *)
(* calls back, and both merchants ask for the status and the assertion of  *)
(* their own request, of the other's and of requests that do not exist.    *)
(***************************************************************************)
InitScope ==
    /\ merchants = SeededMerchants
    /\ apiKeys = SeededKeys
    /\ proofRequests =
         <<[merchantId |-> MerchantIdOf("merchant_demo"), subjectRef |-> "user_123",
            minAge |-> 18, status |-> "pending", verifierRef |-> Null],
           [merchantId |-> MerchantIdOf("merchant_other"), subjectRef |-> "user_456",
            minAge |-> 13, status |-> "pending", verifierRef |-> Null]>>
    /\ assertionUses = <<>>
    /\ issued = <<>>
    /\ now = 1
    /\ proc = [p \in Procs |-> Idle]
    /\ okCount = <<>>
    /\ claimedBy = <<>>
    /\ calls = 0

NextScope ==
    \/ \E p \in Procs : AuthFind(p)
    \/ \E p \in Procs : AuthTouch(p)
    \/ \E p \in Procs, id \in 1..Len(proofRequests), result \in Results :
            StartCallback(p, verifierCallbackSecret, id, result, "verif_001")
    \/ \E p \in Procs : CallbackFind(p)
    \/ \E p \in Procs : CallbackUpdate(p)
    \/ \E p \in Procs, cred \in {KeyA, KeyB}, id \in 0..(Len(proofRequests) + 1) :
            StartGetStatus(p, cred, id)
    \/ \E p \in Procs : StatusFind(p)
    \/ \E p \in Procs, cred \in {KeyA, KeyB}, id \in 0..(Len(proofRequests) + 1) :
            StartIssueAssertion(p, cred, id, "nonce_1700000000")
    \/ \E p \in Procs : AssertionFind(p)

SpecScope == InitScope /\ [][NextScope]_vars

(***************************************************************************)
(* Revocation: the demo merchant holds its bootstrap key and a key it was  *)
(* issued, the other merchant its bootstrap key.  The keys are revoked,    *)
(* again and again, with every key as the credential.                      *)
(***************************************************************************)
KeyC == buildApiKeyPlaintext(3)

InitRevoke ==
    /\ merchants = SeededMerchants
    /\ apiKeys = Append(SeededKeys,
            [merchantId |-> MerchantIdOf("merchant_demo"), keyHash |-> sha256(KeyC),
             revokedAt |-> 0])
    /\ proofRequests = <<>>
    /\ assertionUses = <<>>
    /\ issued = <<>>
    /\ now = 1
    /\ proc = [p \in Procs |-> Idle]
    /\ okCount = <<>>
    /\ claimedBy = <<>>
    /\ calls = 0

NextRevoke ==
    \/ Tick
    \/ \E p \in Procs : AuthFind(p)
    \/ \E p \in Procs : AuthTouch(p)
    \/ \E p \in Procs, cred \in {KeyA, KeyB, KeyC}, id \in 0..Len(apiKeys) :
            StartRevokeKey(p, cred, id)
    \/ \E p \in Procs : RevokeFind(p)
    \/ \E p \in Procs : RevokeUpdate(p)

SpecRevoke == InitRevoke /\ [][NextRevoke]_vars

\* One revocation at a time: each call is applied after the one before it
\* has answered.
NextRevokeSeq ==
    \/ Tick
    \/ AuthFind(1)
    \/ AuthTouch(1)
    \/ \E cred \in {KeyA, KeyB, KeyC}, id \in 0..Len(apiKeys) : StartRevokeKey(1, cred, id)
    \/ RevokeFind(1)
    \/ RevokeUpdate(1)

SpecRevokeSeq == InitRevoke /\ [][NextRevokeSeq]_vars

(***************************************************************************)
(* Authentication over a store whose writes can fail: the merchants ask    *)
(* for the status of requests and create requests, and the update of       *)
(* lastUsedAt either succeeds or rejects.                                  *)
(***************************************************************************)
NextAuthFault ==
    \/ \E p \in Procs : AuthFind(p)
    \/ \E p \in Procs : AuthTouch(p)
    \/ \E p \in Procs : AuthTouchFails(p)
    \/ \E p \in Procs, cred \in {NoHeader, WrongKey, KeyA, KeyB},
          id \in 0..(Len(proofRequests) + 1) :
            StartGetStatus(p, cred, id)
    \/ \E p \in Procs : StatusFind(p)
    \/ \E p \in Procs, cred \in {KeyA, KeyB}, minAge \in {13, 26} :
            StartCreateRequest(p, cred, "user_456", minAge)
    \/ \E p \in Procs : ProofCreate(p)

SpecAuthFault == InitScope /\ [][NextAuthFault]_vars

(***************************************************************************)
(* End to end: the merchants are seeded and nothing else exists.  One      *)
(* caller at a time creates requests, the verifier calls back, assertions  *)
(* are issued and verified.  The run is E2ECalls requests long: the count  *)
(* of requests starts that far below its limit.                            *)
(***************************************************************************)
InitE2E ==
    /\ merchants = SeededMerchants
    /\ apiKeys = SeededKeys
    /\ proofRequests = <<>>
    /\ assertionUses = <<>>
    /\ issued = <<>>
    /\ now = 1
    /\ proc = [p \in Procs |-> Idle]
    /\ okCount = <<>>
    /\ claimedBy = <<>>
    /\ calls = MaxCalls - E2ECalls

NextE2E ==
    \/ Tick
    \/ AuthFind(1)
    \/ AuthTouch(1)
    \/ \E minAge \in MinAges : StartCreateRequest(1, KeyA, "user_123", minAge)
    \/ ProofCreate(1)
    \/ \E id \in 1..Len(proofRequests), result \in Results :
            StartCallback(1, verifierCallbackSecret, id, result, "verif_001")
    \/ CallbackFind(1)
    \/ CallbackUpdate(1)
    \/ \E id \in 1..Len(proofRequests), nonce \in Nonces :
            StartIssueAssertion(1, KeyA, id, nonce)
    \/ AssertionFind(1)
    \/ \E a \in 1..Len(issued), expectedNonce \in Nonces :
            StartVerify(1, KeyA, a, 18, expectedNonce, "user_123")
    \/ VerifyJwt(1)
    \/ VerifyInsert(1)

SpecE2E == InitE2E /\ [][NextE2E]_vars

(***************************************************************************)
(* Every way a verification is refused: the demo merchant has assertions   *)
(* issued for its passed request, and one caller at a time presents no     *)
(* key, a wrong key or a merchant's key, a malformed body, a string that   *)
(* is no token of the issuer, or a token with any nonce and subject.       *)
(***************************************************************************)
NextVerifyChecks ==
    \/ Tick
    \/ AuthFind(1)
    \/ AuthTouch(1)
    \/ \E nonce \in Nonces : StartIssueAssertion(1, KeyA, 1, nonce)
    \/ AssertionFind(1)
    \/ \E cred \in {NoHeader, WrongKey, KeyA, KeyB}, a \in -1..Len(issued),
          requiredMinAge \in {12, 18},
          expectedNonce \in Nonces,
          expectedSubjectRef \in {"user_123", "user_456", Undefined} :
            StartVerify(1, cred, a, requiredMinAge, expectedNonce, expectedSubjectRef)
    \/ VerifyJwt(1)
    \/ VerifyInsert(1)

SpecVerifyChecks == InitVerify /\ [][NextVerifyChecks]_vars

(***************************************************************************)
(* Racing callbacks: the verifier reports passed under one reference and   *)
(* failed under another, for the same requests and at the same time, while *)
(* the merchants have assertions issued.                                   *)
(***************************************************************************)
CallbackPairs == {<<"passed", "verif_001">>, <<"failed", "verif_002">>}

NextCallbacks ==
    \/ \E p \in Procs : AuthFind(p)
    \/ \E p \in Procs : AuthTouch(p)
    \/ \E p \in Procs, id \in 1..Len(proofRequests), pair \in CallbackPairs :
            StartCallback(p, verifierCallbackSecret, id, pair[1], pair[2])
    \/ \E p \in Procs : CallbackFind(p)
    \/ \E p \in Procs : CallbackUpdate(p)
    \/ \E p \in Procs : StartIssueAssertion(p, KeyA, 1, "nonce_1700000000")
    \/ \E p \in Procs : AssertionFind(p)

SpecCallbacks == InitScope /\ [][NextCallbacks]_vars

(***************************************************************************)
(* Repeated issuance: the demo merchant already holds one assertion of its *)
(* passed request; it has more issued and verifies them, one call at a     *)
(* time.                                                                   *)
(***************************************************************************)
InitIssued ==
    /\ merchants = SeededMerchants
    /\ apiKeys = SeededKeys
    /\ proofRequests =
         <<[merchantId |-> MerchantIdOf("merchant_demo"), subjectRef |-> "user_123",
            minAge |-> 18, status |-> "passed", verifierRef |-> "verif_001"]>>
    /\ assertionUses = <<>>
    /\ now = 1
    /\ issued = <<buildAgeAssertion("merchant_demo", 1, "nonce_1700000000", 1)>>
    /\ proc = [p \in Procs |-> Idle]
    /\ okCount = <<0>>
    /\ claimedBy = <<0>>
    /\ calls = 0

NextIssued ==
    \/ Tick
    \/ AuthFind(1)
    \/ AuthTouch(1)
    \/ \E nonce \in Nonces \cup {Undefined} : StartIssueAssertion(1, KeyA, 1, nonce)
    \/ AssertionFind(1)
    \/ \E a \in 1..Len(issued), expectedNonce \in Nonces :
            StartVerify(1, KeyA, a, 18, expectedNonce, Undefined)
    \/ VerifyJwt(1)
    \/ VerifyInsert(1)

SpecIssued == InitIssued /\ [][NextIssued]_vars

(***************************************************************************)
(* Callbacks after issuance: the demo merchant holds an assertion of its   *)
(* passed request; the verifier calls back again, with either result, and  *)
(* the merchant has assertions issued and verified, one call at a time.    *)
(***************************************************************************)
NextFlip ==
    \/ Tick
    \/ AuthFind(1)
    \/ AuthTouch(1)
    \/ \E result \in Results, verifierRef \in VerifierRefs :
            StartCallback(1, verifierCallbackSecret, 1, result, verifierRef)
    \/ CallbackFind(1)
    \/ CallbackUpdate(1)
    \/ StartIssueAssertion(1, KeyA, 1, "nonce_1700000001")
    \/ AssertionFind(1)
    \/ \E a \in 1..Len(issued), expectedNonce \in Nonces :
            StartVerify(1, KeyA, a, 18, expectedNonce, Undefined)
    \/ VerifyJwt(1)
    \/ VerifyInsert(1)

SpecFlip == InitIssued /\ [][NextFlip]_vars

(***************************************************************************)
(* The callback channel: each merchant has one pending request; callbacks  *)
(* arrive with no secret, a wrong secret (of another or of the same        *)
(* length) or the right one, for the requests and for ids of no request.   *)
(***************************************************************************)
WrongSecrets == {"wrong_secret", "dev_verifier_secret_change_it"}

NextCallbackAuth ==
    \/ \E p \in Procs, secret \in {NoHeader, verifierCallbackSecret} \cup WrongSecrets,
          id \in 0..(Len(proofRequests) + 1), result \in Results,
          verifierRef \in VerifierRefs :
            StartCallback(p, secret, id, result, verifierRef)
    \/ \E p \in Procs : CallbackFind(p)
    \/ \E p \in Procs : CallbackUpdate(p)

SpecCallbackAuth == InitScope /\ [][NextCallbackAuth]_vars

(***************************************************************************)
(* Consumption and the age comparison: the demo merchant holds an          *)
(* assertion with age_over 18.  One caller verifies it against any         *)
(* required age, a second one against the ages the assertion meets.        *)
(***************************************************************************)
MetMinAges == {a \in RequiredMinAges : a <= 18}

NextConsume ==
    \/ Tick
    \/ \E p \in Procs : AuthFind(p)
    \/ \E p \in Procs : AuthTouch(p)
    \/ \E requiredMinAge \in RequiredMinAges, expectedNonce \in Nonces :
            StartVerify(1, KeyA, 1, requiredMinAge, expectedNonce, Undefined)
    \/ \E requiredMinAge \in MetMinAges :
            StartVerify(2, KeyA, 1, requiredMinAge, "nonce_1700000000", Undefined)
    \/ \E p \in Procs : VerifyJwt(p)
    \/ \E p \in Procs : VerifyInsert(p)

SpecConsume == InitIssued /\ [][NextConsume]_vars

(***************************************************************************)
(* Properties                                                              *)
(***************************************************************************)
\* the ledger rows of token t
UsesOf(t) == {i \in 1..Len(assertionUses) : assertionUses[i].tokenJti = issued[t].jti}

\* handler p has answered a verification of token t
VerifyDone(p, t) ==
    proc[p].op = "verify" /\ proc[p].pc = "done" /\ proc[p].in.assertion = t

\* handler p answers in this step
Answers(p) == proc[p].pc \notin {"idle", "done"} /\ proc'[p].pc = "done"

\* C1: for every token identifier, whatever verifications the merchants make
\* and however they interleave, at most one call returns valid=true and the
\* replay ledger holds at most one row for it.
C1_AtMostOnce ==
    \A t \in 1..Len(issued) : okCount[t] <= 1 /\ Cardinality(UsesOf(t)) <= 1

C1_Witness ==
    \E t \in 1..Len(issued), p \in Procs :
        /\ okCount[t] = 1
        /\ Cardinality(UsesOf(t)) = 1
        /\ VerifyDone(p, t)
        /\ proc[p].out.code = "ASSERTION_REPLAYED"

\* C2: two verifications of the same valid, unexpired token by its audience
\* merchant with the right nonce, both of which passed their checks while the
\* token was still unused (they race to the ledger insert), end with exactly
\* one success and one ASSERTION_REPLAYED.
C2_Racing(p, q, t) ==
    /\ p # q
    /\ VerifyDone(p, t) /\ VerifyDone(q, t)
    /\ proc[p].fresh /\ proc[q].fresh
    /\ claimedBy[t] \in {0, p, q}

C2_ExactlyOneSuccess ==
    \A t \in 1..Len(issued), p \in Procs, q \in Procs :
        C2_Racing(p, q, t) =>
            \/ proc[p].out.status = 200 /\ proc[q].out.code = "ASSERTION_REPLAYED"
            \/ proc[q].out.status = 200 /\ proc[p].out.code = "ASSERTION_REPLAYED"

C2_Witness ==
    \E t \in 1..Len(issued) :
        /\ C2_Racing(1, 2, t)
        /\ proc[1].out.code = "ASSERTION_REPLAYED"
        /\ proc[2].out.status = 200 /\ proc[2].out.valid

\* C3 as stated: once a token has been verified successfully, a later attempt
\* to verify it yields ASSERTION_REPLAYED, whichever merchant makes it.  Taken
\* here in its narrowest reading: the attempt arrives after the success, is
\* authenticated, repeats the token's own nonce, names no subject and is
\* checked before the token expires.
C3_SecondAttemptAlwaysReplayed ==
    [][\A p \in Procs :
        (/\ Answers(p)
         /\ proc[p].op = "verify"
         /\ proc[p].pc \in {"verify_jwt", "verify_insert"}
         /\ proc[p].in.assertion >= 1
         /\ proc[p].late
         /\ proc[p].in.expectedNonce = issued[proc[p].in.assertion].nonce
         /\ proc[p].in.expectedSubjectRef = Undefined
         /\ issued[proc[p].in.assertion].exp > now)
        => proc'[p].out.code = "ASSERTION_REPLAYED"]_vars

\* C3, amended: once a token has been verified successfully, no later answer
\* for it is a success; an attempt that reaches the ledger insert (audience
\* merchant, unexpired, matching nonce and subject) is answered
\* ASSERTION_REPLAYED, and an attempt by a merchant other than the audience is
\* answered INVALID_ASSERTION.
C3_Consumed(p) ==
    /\ proc[p].op = "verify"
    /\ proc[p].in.assertion \in 1..Len(issued)
    /\ okCount[proc[p].in.assertion] >= 1

C3_LaterAttemptsRejected ==
    [][\A p \in Procs :
        (Answers(p) /\ C3_Consumed(p)) =>
            /\ proc'[p].out.status # 200
            /\ proc[p].pc = "verify_insert" => proc'[p].out.code = "ASSERTION_REPLAYED"
            /\ (/\ proc[p].pc = "verify_jwt"
                /\ proc[p].merchantExternalRef # issued[proc[p].in.assertion].aud)
               => proc'[p].out.code = "INVALID_ASSERTION"]_vars

\* the checks of a consumed token presented again by its audience merchant
\* pass, so that the attempt does reach the ledger insert
C3_Witness ==
    \E t \in 1..Len(issued), p \in Procs :
        /\ okCount[t] = 1
        /\ VerifyDone(p, t)
        /\ proc[p].late
        /\ proc[p].out.code = "ASSERTION_REPLAYED"

\* C9: a verification that passes every check and is no replay is answered
\* valid=true with meetsMinAge = (assertedAgeOver >= requiredMinAge), true when
\* requiredMinAge <= age_over and false when it is higher, and never an error.
C9_MeetsMinAge ==
    [][\A p \in Procs :
        (/\ proc[p].pc = "verify_insert"
         /\ proc'[p].pc = "done"
         /\ ~tokenJtiTaken(assertionUses, issued[proc[p].in.assertion].jti))
        => LET age == issued[proc[p].in.assertion].age_over
               required == proc[p].in.requiredMinAge
           IN /\ proc'[p].out.status = 200
              /\ proc'[p].out.valid
              /\ proc'[p].out.assertedAgeOver = age
              /\ proc'[p].out.requiredMinAge = required
              /\ required <= age => proc'[p].out.meetsMinAge = TRUE
              /\ required > age => proc'[p].out.meetsMinAge = FALSE]_vars

C9_Witness ==
    \E p \in Procs :
        /\ proc[p].op = "verify" /\ proc[p].pc = "done"
        /\ proc[p].out.status = 200
        /\ proc[p].out.valid
        /\ proc[p].out.requiredMinAge > proc[p].out.assertedAgeOver
        /\ proc[p].out.meetsMinAge = FALSE

\* C10: a token issued for nonce N1, presented unexpired by its audience
\* merchant with an expectedNonce other than N1, is answered 409 NONCE_MISMATCH
\* and never a success.
C10_NonceBinding ==
    [][\A p \in Procs :
        (/\ proc[p].pc = "verify_jwt"
         /\ proc'[p].pc # "verify_jwt"
         /\ proc[p].in.assertion >= 1
         /\ issued[proc[p].in.assertion].aud = proc[p].merchantExternalRef
         /\ issued[proc[p].in.assertion].exp > now
         /\ issued[proc[p].in.assertion].nonce # proc[p].in.expectedNonce)
        => /\ proc'[p].pc = "done"
           /\ proc'[p].out.status = 409
           /\ proc'[p].out.code = "NONCE_MISMATCH"]_vars

C10_Witness ==
    \E p \in Procs :
        /\ proc[p].op = "verify" /\ proc[p].pc = "done"
        /\ proc[p].in.assertion >= 1
        /\ proc[p].out.code = "NONCE_MISMATCH"
        /\ okCount[proc[p].in.assertion] = 0

\* C4 as stated: once revokedAt of an ApiKey is set, no operation (key
\* issuance, revocation, authentication, the seed script) unsets it.
C4_RevocationPermanent ==
    [][\A i \in 1..Len(apiKeys) :
        apiKeys[i].revokedAt # 0 => apiKeys'[i].revokedAt # 0]_vars

\* C5: authenticateMerchant answers MISSING_API_KEY when no key is presented;
\* its lookup succeeds if and only if some ApiKey row has the digest of the
\* presented key and revokedAt unset, the context is then that row's merchant
\* (id and external reference) and it is handed to the handler; otherwise the
\* answer is 401 INVALID_API_KEY.
C5_Matching(cred) ==
    {i \in 1..Len(apiKeys) :
        apiKeys[i].keyHash = sha256(cred) /\ apiKeys[i].revokedAt = 0}

C5_Lookup(p) ==
    (proc[p].pc = "auth_find" /\ proc'[p].pc # "auth_find") =>
        IF C5_Matching(proc[p].cred) # {}
        THEN /\ proc'[p].pc = "auth_touch"
             /\ \E i \in C5_Matching(proc[p].cred), m \in merchants :
                    /\ m.id = apiKeys[i].merchantId
                    /\ proc'[p].keyId = i
                    /\ proc'[p].merchantId = m.id
                    /\ proc'[p].merchantExternalRef = m.externalRef
        ELSE /\ proc'[p].pc = "done"
             /\ proc'[p].out = [status |-> 401, code |-> "INVALID_API_KEY"]

C5_Returned(p) ==
    (proc[p].pc = "auth_touch" /\ proc'[p].pc # "auth_touch") =>
        /\ proc'[p].out.status # 401
        /\ proc'[p].pc # "done" => proc'[p].merchantId = proc[p].merchantId

C5_Missing(p) ==
    /\ proc'[p].pc = "auth_find" => proc'[p].cred # NoHeader
    /\ (calls' = calls + 1 /\ proc'[p] # proc[p] /\ proc'[p].pc = "done") =>
            proc'[p].out = [status |-> 401, code |-> "MISSING_API_KEY"]

C5_Authenticate ==
    [][\A p \in Procs : C5_Lookup(p) /\ C5_Returned(p) /\ C5_Missing(p)]_vars

C5_Witness ==
    \E p \in Procs, q \in Procs, i \in 1..Len(apiKeys) :
        /\ apiKeys[i].revokedAt # 0
        /\ proc[p].op = "revokeKey" /\ proc[p].pc = "done"
        /\ proc[p].out.status = 200 /\ proc[p].out.apiKeyId = i
        /\ proc[q].pc = "done" /\ proc[q].out.code = "INVALID_API_KEY"

\* C6 as stated: the only status transitions are pending -> passed and
\* pending -> failed; a request that is passed or failed keeps its status.
C6_StatusMonotonic ==
    [][\A id \in 1..Len(proofRequests) :
        proofRequests[id].status \in {"passed", "failed"} =>
            proofRequests'[id].status = proofRequests[id].status]_vars

\* C7: an assertion is issued only for a proof request that, as read by the
\* call, belongs to the requesting merchant and is passed; for a pending or
\* failed request of the merchant the answer is 409 PROOF_NOT_PASSED and no
\* token is minted.
C7_Owned(p) ==
    /\ proc[p].in.proofRequestId \in 1..Len(proofRequests)
    /\ proofRequests[proc[p].in.proofRequestId].merchantId = proc[p].merchantId

C7_IssuanceNeedsPassed ==
    [][/\ \A p \in Procs :
            (proc[p].pc = "assertion_find" /\ proc'[p].pc = "done") =>
                /\ proc'[p].out.status = 200 =>
                        /\ C7_Owned(p)
                        /\ proofRequests[proc[p].in.proofRequestId].status = "passed"
                /\ (/\ C7_Owned(p)
                    /\ proofRequests[proc[p].in.proofRequestId].status
                            \in {"pending", "failed"})
                   => /\ proc'[p].out = [status |-> 409, code |-> "PROOF_NOT_PASSED"]
                      /\ issued' = issued
       /\ issued' # issued =>
            \E p \in Procs : /\ proc[p].pc = "assertion_find"
                             /\ proc'[p].pc = "done"
                             /\ proc'[p].out.status = 200]_vars

C7_Witness ==
    \E p \in Procs, id \in 1..Len(proofRequests) :
        /\ proofRequests[id].status = "failed"
        /\ \A other \in 1..Len(proofRequests) : proofRequests[other].status # "passed"
        /\ proc[p].op = "issueAssertion" /\ proc[p].pc = "done"
        /\ proc[p].out.code = "PROOF_NOT_PASSED"
        /\ issued = <<>>

\* C8: every assertion issued for a proof request carries age_over equal to
\* the threshold the request was created with and sub equal to its subjectRef;
\* the threshold is in 13..25 and no operation changes a request's minAge or
\* subjectRef after creation.
C8_TokensCarryThreshold ==
    \A t \in 1..Len(issued) :
        /\ issued[t].proof_request_id \in 1..Len(proofRequests)
        /\ issued[t].age_over = proofRequests[issued[t].proof_request_id].minAge
        /\ issued[t].sub = proofRequests[issued[t].proof_request_id].subjectRef
        /\ issued[t].age_over \in 13..25

C8_Immutable ==
    /\ Len(proofRequests') >= Len(proofRequests)
    /\ \A id \in 1..Len(proofRequests) :
        /\ proofRequests'[id].minAge = proofRequests[id].minAge
        /\ proofRequests'[id].subjectRef = proofRequests[id].subjectRef
    /\ \A p \in Procs :
        (proc[p].pc = "proof_create" /\ proc'[p].pc = "done") =>
            /\ proofRequests'[Len(proofRequests')].minAge = proc[p].in.minAge
            /\ proofRequests'[Len(proofRequests')].subjectRef = proc[p].in.subjectRef

C8_AgeOverIsThreshold == [](C8_TokensCarryThreshold) /\ [][C8_Immutable]_vars

C8_Witness ==
    \E t \in 1..Len(issued) :
        /\ issued[t].age_over = 13
        /\ issued[t].sub = "user_456"
        /\ proofRequests[issued[t].proof_request_id].minAge = 13
        /\ proofRequests[issued[t].proof_request_id].status = "passed"

\* C11: an assertion minted for merchant A, presented by an authenticated
\* merchant B whose external reference differs, is answered 401
\* INVALID_ASSERTION whatever the nonce, the subject and the ledger hold, and no
\* verification by a merchant other than the audience is ever a success.
C11_Foreign(p) ==
    /\ proc[p].op = "verify"
    /\ proc[p].in.assertion \in 1..Len(issued)
    /\ issued[proc[p].in.assertion].aud # proc[p].merchantExternalRef

C11_AudienceBinding ==
    [][\A p \in Procs :
        /\ (proc[p].pc = "verify_jwt" /\ proc'[p].pc # "verify_jwt" /\ C11_Foreign(p))
            => /\ proc'[p].pc = "done"
               /\ proc'[p].out = [status |-> 401, code |-> "INVALID_ASSERTION"]
        /\ (proc[p].pc = "verify_insert" /\ proc'[p].pc = "done"
                /\ proc'[p].out.status = 200)
            => /\ issued[proc[p].in.assertion].aud = proc[p].merchantExternalRef
               /\ proc'[p].out.audience = proc[p].merchantExternalRef]_vars

\* an unexpired token, already consumed by its audience merchant, was refused
\* with INVALID_ASSERTION: the presenter was not its audience
C11_Witness ==
    \E p \in Procs, t \in 1..Len(issued) :
        /\ VerifyDone(p, t)
        /\ proc[p].out.code = "INVALID_ASSERTION"
        /\ issued[t].exp > now
        /\ okCount[t] = 1

\* C12: getStatus and assertion issuance answer a proof request owned by
\* another merchant exactly as they answer an id of no request: 404 NOT_FOUND
\* with the same body, whatever the status of that request, and change nothing.
C12_Lookup(p) == proc[p].pc \in {"status_find", "assertion_find"} /\ proc'[p].pc = "done"

C12_Foreign(p) ==
    /\ proc[p].in.proofRequestId \in 1..Len(proofRequests)
    /\ proofRequests[proc[p].in.proofRequestId].merchantId # proc[p].merchantId

C12_Nonexistent(p) == proc[p].in.proofRequestId \notin 1..Len(proofRequests)

C12_NotFound(p) ==
    /\ proc'[p].out = [status |-> 404, code |-> "NOT_FOUND"]
    /\ proc'[p] = Ended(proc[p], [status |-> 404, code |-> "NOT_FOUND"])
    /\ UNCHANGED <<dbVars, issued>>

C12_MerchantScoping ==
    [][\A p \in Procs :
        (C12_Lookup(p) /\ (C12_Foreign(p) \/ C12_Nonexistent(p))) => C12_NotFound(p)]_vars

\* both lookups have refused a passed request of the other merchant
C12_Witness ==
    \E p \in Procs, q \in Procs :
        /\ proc[p].op = "getStatus" /\ proc[p].pc = "done"
        /\ proc[p].out.code = "NOT_FOUND"
        /\ proc[p].in.proofRequestId \in 1..Len(proofRequests)
        /\ proofRequests[proc[p].in.proofRequestId].status = "passed"
        /\ proc[q].op = "issueAssertion" /\ proc[q].pc = "done"
        /\ proc[q].out.code = "NOT_FOUND"
        /\ proc[q].in.proofRequestId = proc[p].in.proofRequestId

\* C13: a revocation whose target has the hash of the key presented with the
\* call is answered 409 CANNOT_REVOKE_CURRENT_KEY; the call writes nothing, so
\* the revokedAt it found unset stays unset, and no call ever reaches the
\* update of the key it was made with.
C13_Target(p) ==
    /\ proc[p].in.apiKeyId \in 1..Len(apiKeys)
    /\ apiKeys[proc[p].in.apiKeyId].merchantId = proc[p].merchantId

C13_RefusesCurrentKey ==
    [][\A p \in Procs :
        /\ (/\ proc[p].pc = "revoke_find" /\ proc'[p].pc # "revoke_find"
            /\ C13_Target(p)
            /\ apiKeys[proc[p].in.apiKeyId].keyHash = sha256(proc[p].cred))
           => /\ proc'[p].pc = "done"
              /\ proc'[p].out = [status |-> 409, code |-> "CANNOT_REVOKE_CURRENT_KEY"]
              /\ apiKeys' = apiKeys
        /\ (proc[p].pc = "revoke_update" /\ proc'[p].pc = "done")
           => /\ apiKeys[proc[p].in.apiKeyId].keyHash # sha256(proc[p].cred)
              /\ \A i \in 1..Len(apiKeys) :
                    apiKeys[i].keyHash = sha256(proc[p].cred)
                        => apiKeys'[i] = apiKeys[i]]_vars

\* the refusal has been given and every key is still unrevoked
C13_Witness ==
    \E p \in Procs :
        /\ proc[p].op = "revokeKey" /\ proc[p].pc = "done"
        /\ proc[p].out.code = "CANNOT_REVOKE_CURRENT_KEY"
        /\ Len(apiKeys) >= 2
        /\ \A i \in 1..Len(apiKeys) : apiKeys[i].revokedAt = 0

\* C14: a revocation that finds its target (a key of the caller's merchant, not
\* the key of the call) already revoked answers 200 with alreadyRevoked and
\* writes nothing; applied one after the other, revocations never change a
\* record that is revoked, so revoking twice leaves the key, with its first
\* revocation time, as revoking once did.
C14_Idempotent ==
    [][/\ \A p \in Procs :
            (/\ proc[p].pc = "revoke_find" /\ proc'[p].pc # "revoke_find"
             /\ C13_Target(p)
             /\ apiKeys[proc[p].in.apiKeyId].keyHash # sha256(proc[p].cred)
             /\ apiKeys[proc[p].in.apiKeyId].revokedAt # 0)
            => /\ proc'[p].pc = "done"
               /\ proc'[p].out = [status |-> 200, code |-> "OK", alreadyRevoked |-> TRUE]
               /\ apiKeys' = apiKeys
       /\ \A i \in 1..Len(apiKeys) :
            apiKeys[i].revokedAt # 0 => apiKeys'[i] = apiKeys[i]]_vars

\* the second revocation was answered a tick after the first and the key
\* still carries the time of the first
C14_Witness ==
    \E i \in 1..Len(apiKeys) :
        /\ proc[1].op = "revokeKey" /\ proc[1].pc = "done"
        /\ proc[1].out.status = 200 /\ proc[1].out.alreadyRevoked
        /\ apiKeys[i].revokedAt = 1 /\ now = 2
        /\ \A j \in 1..Len(apiKeys) : j # i => apiKeys[j].revokedAt = 0

\* C15 as stated: when the active key is found, authentication succeeds and
\* the handler goes on with the merchant context whether or not the write of
\* lastUsedAt succeeds.
C15_LastUsedBestEffort ==
    [][\A p \in Procs :
        (proc[p].pc = "auth_touch" /\ proc'[p].pc # "auth_touch")
            => proc'[p] = AfterAuth(proc[p])]_vars

\* C16: a request created with minAge 18, called back as passed, asserted with
\* nonce N and verified by the same merchant with requiredMinAge 18 and
\* expectedNonce N before the token expires is answered valid=true,
\* meetsMinAge=true, assertedAgeOver=18; submitting the same assertion and nonce
\* again is answered 409 ASSERTION_REPLAYED.
C16_Submission(p) ==
    /\ proc[p].op = "verify"
    /\ proc[p].pc \in {"verify_jwt", "verify_insert"}
    /\ proc'[p].pc = "done"
    /\ proc[p].in.assertion \in 1..Len(issued)
    /\ issued[proc[p].in.assertion].age_over = 18
    /\ issued[proc[p].in.assertion].aud = proc[p].merchantExternalRef
    /\ issued[proc[p].in.assertion].exp > now
    /\ proc[p].in.requiredMinAge = 18
    /\ proc[p].in.expectedNonce = issued[proc[p].in.assertion].nonce
    /\ proc[p].in.expectedSubjectRef = issued[proc[p].in.assertion].sub

C16_EndToEnd ==
    [][\A p \in Procs :
        C16_Submission(p) =>
            IF okCount[proc[p].in.assertion] = 0
            THEN /\ proc'[p].out.status = 200
                 /\ proc'[p].out.valid
                 /\ proc'[p].out.meetsMinAge
                 /\ proc'[p].out.assertedAgeOver = 18
                 /\ proc'[p].out.requiredMinAge = 18
            ELSE proc'[p].out = [status |-> 409, code |-> "ASSERTION_REPLAYED"]]_vars

\* the whole run has been made: the request was created, passed, asserted,
\* verified once with success, and the second submission was refused
C16_Witness ==
    \E t \in 1..Len(issued) :
        /\ calls = MaxCalls
        /\ proofRequests[issued[t].proof_request_id].minAge = 18
        /\ proofRequests[issued[t].proof_request_id].status = "passed"
        /\ okCount[t] = 1
        /\ Cardinality(UsesOf(t)) = 1
        /\ VerifyDone(1, t)
        /\ proc[1].out.code = "ASSERTION_REPLAYED"

\* C17: a verification that ends in a rejection leaves the replay ledger
\* unchanged; a ledger row is created only by the call that answers success,
\* one row per success, so a token that was only ever rejected has no row and
\* its next verification that passes the checks succeeds.
C17_RowsAreSuccesses ==
    \A t \in 1..Len(issued) : Cardinality(UsesOf(t)) = okCount[t]

C17_Frame ==
    /\ \A p \in Procs :
        (proc[p].op = "verify" /\ Answers(p) /\ proc'[p].out.status # 200)
            => assertionUses' = assertionUses
    /\ \A p \in Procs :
        (proc'[p].op = "verify" /\ proc'[p] # proc[p] /\ proc'[p].pc = "done"
            /\ proc'[p].out.status # 200)
            => assertionUses' = assertionUses
    /\ assertionUses' # assertionUses =>
        \E p \in Procs :
            /\ proc[p].pc = "verify_insert" /\ proc'[p].pc = "done"
            /\ proc'[p].out.status = 200 /\ proc'[p].out.valid
            /\ Len(assertionUses') = Len(assertionUses) + 1
            /\ SubSeq(assertionUses', 1, Len(assertionUses)) = assertionUses
            /\ assertionUses'[Len(assertionUses')].tokenJti
                    = issued[proc[p].in.assertion].jti
    /\ \A p \in Procs :
        (proc[p].pc = "verify_insert" /\ proc'[p].pc = "done"
            /\ okCount[proc[p].in.assertion] = 0)
            => proc'[p].out.status = 200

C17_RejectionsLeaveLedger == [](C17_RowsAreSuccesses) /\ [][C17_Frame]_vars

\* one assertion was issued and two verifications were made: the first was
\* refused and left no row, the second succeeded
C17_Witness ==
    /\ calls = MaxCalls
    /\ Len(issued) = 1
    /\ VerifyDone(1, 1)
    /\ proc[1].out.status = 200
    /\ okCount[1] = 1
    /\ Len(assertionUses) = 1

\* C18: the checks of a verification run in the order signature, issuer,
\* audience and expiry, then claim shape, nonce, subject, jti and the ledger
\* insert, and the answer is the error of the first step that fails: a wrong
\* audience wins over a wrong nonce, a wrong nonce over a wrong subject, and a
\* wrong nonce over a consumed token.
C18_Signed(p) ==
    /\ proc[p].in.assertion \in 1..Len(issued)
    /\ issued[proc[p].in.assertion].iss = Issuer
    /\ issued[proc[p].in.assertion].aud = proc[p].merchantExternalRef
    /\ issued[proc[p].in.assertion].exp > now

C18_FirstFailure(p) ==
    IF ~C18_Signed(p)
    THEN "INVALID_ASSERTION"
    ELSE IF issued[proc[p].in.assertion].nonce # proc[p].in.expectedNonce
    THEN "NONCE_MISMATCH"
    ELSE IF /\ proc[p].in.expectedSubjectRef # Undefined
            /\ issued[proc[p].in.assertion].sub # proc[p].in.expectedSubjectRef
    THEN "SUBJECT_MISMATCH"
    ELSE "OK"

\* the ledger insert, the last step: the checks before it were passed when
\* jwtVerify returned
C18_Insert(p) ==
    IF \E i \in 1..Len(assertionUses) :
            assertionUses[i].tokenJti = issued[proc[p].in.assertion].jti
    THEN "ASSERTION_REPLAYED"
    ELSE "OK"

C18_CheckOrder ==
    [][\A p \in Procs :
        /\ (proc[p].pc = "verify_jwt" /\ proc'[p].pc # "verify_jwt") =>
            IF C18_FirstFailure(p) # "OK"
            THEN /\ proc'[p].pc = "done"
                 /\ proc'[p].out.code = C18_FirstFailure(p)
                 /\ proc'[p].out.status =
                        IF C18_FirstFailure(p) = "INVALID_ASSERTION" THEN 401 ELSE 409
            ELSE proc'[p].pc = "verify_insert"
        /\ (proc[p].pc = "verify_insert" /\ proc'[p].pc = "done") =>
            /\ proc'[p].out.code = C18_Insert(p)
            /\ proc'[p].out.status = IF C18_Insert(p) = "OK" THEN 200 ELSE 409]_vars

\* a consumed token presented with a wrong expectedNonce was answered
\* NONCE_MISMATCH
C18_Witness ==
    \E t \in 1..Len(issued) :
        /\ okCount[t] = 1
        /\ Cardinality(UsesOf(t)) = 1
        /\ VerifyDone(1, t)
        /\ proc[1].out = [status |-> 409, code |-> "NONCE_MISMATCH"]

\* C19: however concurrent callbacks for a proof request interleave, the
\* request is either pending with no verifier reference or carries the result
\* and the verifier reference of one and the same callback, and so does every
\* assertion issued from it.
C19_NoTornState ==
    /\ \A id \in 1..Len(proofRequests) :
        \/ /\ proofRequests[id].status = "pending"
           /\ proofRequests[id].verifierRef = Null
        \/ <<proofRequests[id].status, proofRequests[id].verifierRef>> \in CallbackPairs
    /\ \A t \in 1..Len(issued) : <<"passed", issued[t].verifier_ref>> \in CallbackPairs

\* both handlers have applied a callback to the same request, one passed and
\* one failed
C19_Witness ==
    /\ proc[1].op = "callback" /\ proc[1].pc = "done" /\ proc[1].out.status = 200
    /\ proc[2].op = "callback" /\ proc[2].pc = "done" /\ proc[2].out.status = 200
    /\ proc[1].in.proofRequestId = 1
    /\ proc[2].in.proofRequestId = 1
    /\ proofRequests[1].status = "failed"
    /\ proofRequests[1].verifierRef = "verif_002"
    /\ Len(issued) = 1

\* C20: issuing an assertion writes nothing (the proof request and the replay
\* ledger stay as they were), every assertion carries a token identifier of its
\* own, and the assertions of one proof request are single-use one by one: the
\* first verification of an assertion that passes the checks succeeds even
\* when another assertion of the same request has been consumed.
C20_FreshJti ==
    \A t1 \in 1..Len(issued), t2 \in 1..Len(issued) :
        t1 # t2 => issued[t1].jti # issued[t2].jti

C20_Frame ==
    /\ \A p \in Procs :
        (proc[p].pc = "assertion_find" /\ proc'[p].pc = "done")
            => UNCHANGED <<merchants, apiKeys, proofRequests, assertionUses>>
    /\ \A p \in Procs :
        (proc[p].pc = "verify_insert" /\ proc'[p].pc = "done"
            /\ okCount[proc[p].in.assertion] = 0)
            => /\ proc'[p].out.status = 200
               /\ proc'[p].out.valid

C20_IssuanceRepeatable == [](C20_FreshJti) /\ [][C20_Frame]_vars

\* two assertions of the same proof request have both been verified with
\* success, the second after the first
C20_Witness ==
    \E t1 \in 1..Len(issued), t2 \in 1..Len(issued) :
        /\ t1 # t2
        /\ issued[t1].proof_request_id = issued[t2].proof_request_id
        /\ okCount[t1] = 1 /\ okCount[t2] = 1
        /\ Len(assertionUses) = 2
        /\ VerifyDone(1, t2)
        /\ proc[1].out.status = 200

\* C21: the expiry of every token is its issued-at time plus the configured
\* TTL; a verification whose token is past its expiry when it is checked, and
\* so every verification that arrives after the expiry, is answered 401
\* INVALID_ASSERTION and writes no ledger row, used or not.
C21_Expiry ==
    \A t \in 1..Len(issued) : issued[t].exp = issued[t].iat + assertionTtlSeconds

C21_Expired(p) ==
    /\ proc[p].op = "verify"
    /\ proc[p].pc = "verify_jwt"
    /\ proc'[p].pc # "verify_jwt"
    /\ proc[p].in.assertion \in 1..Len(issued)
    /\ now >= issued[proc[p].in.assertion].exp

C21_Rejected ==
    /\ \A p \in Procs :
        C21_Expired(p) =>
            /\ proc'[p].pc = "done"
            /\ proc'[p].out = [status |-> 401, code |-> "INVALID_ASSERTION"]
            /\ assertionUses' = assertionUses
            /\ okCount' = okCount
    /\ \A p \in Procs :
        (proc[p].pc = "verify_jwt" /\ proc'[p].pc = "verify_insert")
            => now < issued[proc[p].in.assertion].exp

C21_TimeBoxing == [](C21_Expiry) /\ [][C21_Rejected]_vars

\* a token that was never used was presented by its audience merchant after
\* its expiry and refused; the ledger is empty
C21_Witness ==
    \E t \in 1..Len(issued) :
        /\ VerifyDone(1, t)
        /\ proc[1].out.code = "INVALID_ASSERTION"
        /\ now >= issued[t].exp
        /\ okCount[t] = 0
        /\ assertionUses = <<>>

\* C22: a callback overwrites the status and the verifier reference of a
\* request whatever its status was, and verification does not read the proof
\* request: an unexpired, unused token presented by its audience merchant with
\* its nonce passes the checks and is answered success whatever the status of
\* its proof request has become.
C22_Overwrite(p) ==
    (proc[p].pc = "callback_update" /\ proc'[p].pc = "done") =>
        LET id == proc[p].in.proofRequestId
        IN /\ proofRequests'[id].status = proc[p].in.result
           /\ proofRequests'[id].verifierRef = proc[p].in.verifierRef
           /\ proc'[p].out = [status |-> 200, code |-> "OK"]

C22_Presented(p) ==
    /\ proc[p].op = "verify"
    /\ proc[p].in.assertion \in 1..Len(issued)
    /\ issued[proc[p].in.assertion].aud = proc[p].merchantExternalRef
    /\ issued[proc[p].in.assertion].nonce = proc[p].in.expectedNonce
    /\ proc[p].in.expectedSubjectRef = Undefined

C22_Verifies(p) ==
    /\ (/\ proc[p].pc = "verify_jwt" /\ proc'[p].pc # "verify_jwt"
        /\ C22_Presented(p)
        /\ issued[proc[p].in.assertion].exp > now)
       => proc'[p].pc = "verify_insert"
    /\ (/\ proc[p].pc = "verify_insert" /\ proc'[p].pc = "done"
        /\ okCount[proc[p].in.assertion] = 0)
       => /\ proc'[p].out.status = 200
          /\ proc'[p].out.valid

C22_FlipDoesNotRevoke ==
    [][\A p \in Procs : C22_Overwrite(p) /\ C22_Verifies(p)]_vars

\* the token was issued while the request was passed; the request has since
\* been flipped to failed, and the verification made after that succeeded
C22_Witness ==
    \E t \in 1..Len(issued) :
        /\ proofRequests[issued[t].proof_request_id].status = "failed"
        /\ issued[t].verifier_ref # proofRequests[issued[t].proof_request_id].verifierRef
        /\ VerifyDone(1, t)
        /\ proc[1].out.status = 200
        /\ proc[1].out.valid
        /\ okCount[t] = 1

\* C23: a callback with no secret is answered 401 MISSING_VERIFIER_SECRET and
\* one with a wrong secret 401 INVALID_VERIFIER_SECRET, and neither goes on to
\* the database; with the right secret, an id of no request is answered 404
\* NOT_FOUND and changes nothing, and an id of a request updates that request,
\* whichever merchant owns it, and no other.
C23_Secret ==
    /\ verifyCallbackSecret(NoHeader) = "MISSING_VERIFIER_SECRET"
    /\ \A secret \in WrongSecrets : verifyCallbackSecret(secret) = "INVALID_VERIFIER_SECRET"
    /\ verifyCallbackSecret(verifierCallbackSecret) = "OK"
    /\ \A p \in Procs :
        proc[p].pc \in {"callback_find", "callback_update"}
            => proc[p].in.secret = verifierCallbackSecret

C23_Steps ==
    /\ \A p \in Procs :
        (proc'[p].op = "callback" /\ proc'[p] # proc[p] /\ proc'[p].pc = "done"
            /\ proc'[p].out.status # 200)
            => /\ proofRequests' = proofRequests
               /\ proc'[p].out.code \in {"MISSING_VERIFIER_SECRET", "INVALID_VERIFIER_SECRET",
                                         "INVALID_CALLBACK", "NOT_FOUND"}
               /\ proc'[p].out.status = 401
                    <=> proc'[p].out.code \in {"MISSING_VERIFIER_SECRET",
                                               "INVALID_VERIFIER_SECRET"}
    /\ \A p \in Procs :
        (proc[p].pc = "callback_find" /\ proc'[p].pc # "callback_find") =>
            /\ proofRequests' = proofRequests
            /\ IF proc[p].in.proofRequestId \in 1..Len(proofRequests)
               THEN proc'[p].pc = "callback_update"
               ELSE /\ proc'[p].pc = "done"
                    /\ proc'[p].out = [status |-> 404, code |-> "NOT_FOUND"]
    /\ \A p \in Procs :
        (proc[p].pc = "callback_update" /\ proc'[p].pc = "done") =>
            LET id == proc[p].in.proofRequestId
            IN /\ Len(proofRequests') = Len(proofRequests)
               /\ proofRequests'[id] =
                    [proofRequests[id] EXCEPT !.status = proc[p].in.result,
                                              !.verifierRef = proc[p].in.verifierRef]
               /\ \A other \in 1..Len(proofRequests) :
                    other # id => proofRequests'[other] = proofRequests[other]
    /\ proofRequests' # proofRequests =>
        \E p \in Procs : proc[p].pc = "callback_update" /\ proc'[p].pc = "done"

C23_CallbackChannel == [](C23_Secret) /\ [][C23_Steps]_vars

\* a callback with a wrong secret was refused, and one with the right secret
\* has updated the request of the other merchant and left the first pending
C23_Witness ==
    \E p \in Procs, q \in Procs :
        /\ proc[p].op = "callback" /\ proc[p].pc = "done"
        /\ proc[p].out = [status |-> 401, code |-> "INVALID_VERIFIER_SECRET"]
        /\ proc[q].op = "callback" /\ proc[q].pc = "done"
        /\ proc[q].out.status = 200
        /\ proc[q].in.proofRequestId = 2
        /\ proofRequests[2].merchantId = MerchantIdOf("merchant_other")
        /\ proofRequests[2].status = "passed"
        /\ proofRequests[1].status = "pending"

\* C24 as stated: a merchant that has an active key still has one after any
\* sequence and interleaving of revocations.
C24_MerchantKeepsActiveKey ==
    \A m \in merchants :
        \E i \in 1..Len(apiKeys) :
            apiKeys[i].merchantId = m.id /\ apiKeys[i].revokedAt = 0

\* C25: the first verification of a token that passes the checks inserts the
\* ledger row whatever the age comparison gives: an answer valid=true with
\* meetsMinAge=false leaves the token consumed, and a later verification of the
\* same token, with a required age it meets, is answered 409
\* ASSERTION_REPLAYED.
C25_Consumed ==
    \A p \in Procs :
        (/\ proc[p].op = "verify" /\ proc[p].pc = "done"
         /\ proc[p].out.status = 200)
        => /\ proc[p].out.valid
           /\ proc[p].out.meetsMinAge
                = (proc[p].out.assertedAgeOver >= proc[p].out.requiredMinAge)
           /\ Cardinality(UsesOf(proc[p].in.assertion)) = 1
           /\ okCount[proc[p].in.assertion] = 1

C25_Insert ==
    \A p \in Procs :
        (proc[p].pc = "verify_insert" /\ proc'[p].pc = "done") =>
            IF UsesOf(proc[p].in.assertion) = {}
            THEN /\ proc'[p].out.status = 200
                 /\ Len(assertionUses') = Len(assertionUses) + 1
                 /\ assertionUses'[Len(assertionUses')].tokenJti
                        = issued[proc[p].in.assertion].jti
            ELSE /\ proc'[p].out = [status |-> 409, code |-> "ASSERTION_REPLAYED"]
                 /\ assertionUses' = assertionUses

C25_ConsumedWhateverTheAge == [](C25_Consumed) /\ [][C25_Insert]_vars

\* the first verification was answered valid=true with meetsMinAge=false; the
\* second, which arrived afterwards with a required age the token meets, was
\* answered ASSERTION_REPLAYED
C25_Witness ==
    /\ VerifyDone(1, 1)
    /\ proc[1].out.status = 200
    /\ proc[1].out.valid
    /\ proc[1].out.meetsMinAge = FALSE
    /\ proc[1].out.requiredMinAge = 25
    /\ VerifyDone(2, 1)
    /\ proc[2].late
    /\ proc[2].out = [status |-> 409, code |-> "ASSERTION_REPLAYED"]
    /\ Len(assertionUses) = 1

====
